---- MODULE Spec2Model ----
(***************************************************************************)
(* Model of smart_webdav_gui.py: a WebDAV reverse proxy (Flask) that sends *)
(* read verbs to one upstream and every other verb to a second upstream,   *)
(* started and configured from a Tkinter window.                           *)
(*                                                                         *)
(* A Python str is modelled as a sequence of one-character strings, a      *)
(* bytes object as a sequence of byte values, a dict / header collection   *)
(* as a sequence of <<key, value>> pairs in insertion order.               *)
(***************************************************************************)
EXTENDS Integers, Sequences, FiniteSets, TLC

(* ------------------------------------------------------------------ *)
(* Python built-ins used by the proxy code                             *)
(* ------------------------------------------------------------------ *)

LowerAlpha == <<"a","b","c","d","e","f","g","h","i","j","k","l","m",
                "n","o","p","q","r","s","t","u","v","w","x","y","z">>

UpperAlpha == <<"A","B","C","D","E","F","G","H","I","J","K","L","M",
                "N","O","P","Q","R","S","T","U","V","W","X","Y","Z">>

IsLower(c) == \E i \in DOMAIN LowerAlpha : LowerAlpha[i] = c

IsUpper(c) == \E i \in DOMAIN UpperAlpha : UpperAlpha[i] = c

IsLetter(c) == IsLower(c) \/ IsUpper(c)

upper_char(c) ==
    IF IsLower(c)
    THEN UpperAlpha[CHOOSE i \in DOMAIN LowerAlpha : LowerAlpha[i] = c]
    ELSE c

lower_char(c) ==
    IF IsUpper(c)
    THEN LowerAlpha[CHOOSE i \in DOMAIN UpperAlpha : UpperAlpha[i] = c]
    ELSE c

\* str.upper()
upper(s) == [i \in 1..Len(s) |-> upper_char(s[i])]

\* str.lower()
lower(s) == [i \in 1..Len(s) |-> lower_char(s[i])]

\* str.title(): a letter that follows a non-letter (or starts the string) is
\* upper-cased, every other letter is lower-cased.
title(s) ==
    [i \in 1..Len(s) |->
        IF i = 1 \/ ~IsLetter(s[i - 1]) THEN upper_char(s[i]) ELSE lower_char(s[i])]

\* str.replace(old, new) for single characters
replace(s, old, new) == [i \in 1..Len(s) |-> IF s[i] = old THEN new ELSE s[i]]

\* str.rstrip('/'): drop every trailing "/"
RECURSIVE rstrip(_)
rstrip(s) ==
    IF s # <<>> /\ s[Len(s)] = "/" THEN rstrip(SubSeq(s, 1, Len(s) - 1)) ELSE s

\* The printable ASCII characters the model's query strings are written in,
\* each with its byte value.  A request target is ASCII (RFC 3986), and on
\* ASCII bytes.decode('utf-8') maps each byte to the character of that code.
AsciiTable ==
    { <<47, "/">>, <<61, "=">>, <<38, "&">>, <<37, "%">>, <<49, "1">>,
      <<50, "2">>, <<48, "0">>, <<120, "x">>, <<121, "y">>, <<63, "?">> }

AsciiBytes == { p[1] : p \in AsciiTable }

chr(b) == (CHOOSE p \in AsciiTable : p[1] = b)[2]

ord(c) == (CHOOSE p \in AsciiTable : p[2] = c)[1]

\* bytes.decode('utf-8') on ASCII bytes
decode(bs) == [i \in 1..Len(bs) |-> chr(bs[i])]

\* str.encode('utf-8') on ASCII text (what the upstream request line carries)
encode(s) == [i \in 1..Len(s) |-> ord(s[i])]

(* ------------------------------------------------------------------ *)
(* Module-level constants of the program                               *)
(* ------------------------------------------------------------------ *)

READ_METHODS ==
    << <<"G","E","T">>, <<"H","E","A","D">>,
       <<"O","P","T","I","O","N","S">>, <<"P","R","O","P","F","I","N","D">> >>

HOP_BY_HOP_HEADERS ==
    << <<"c","o","n","n","e","c","t","i","o","n">>,
       <<"k","e","e","p","-","a","l","i","v","e">>,
       <<"p","r","o","x","y","-","a","u","t","h","e","n","t","i","c","a","t","e">>,
       <<"p","r","o","x","y","-","a","u","t","h","o","r","i","z","a","t","i","o","n">>,
       <<"t","e">>,
       <<"t","r","a","i","l","e","r","s">>,
       <<"t","r","a","n","s","f","e","r","-","e","n","c","o","d","i","n","g">>,
       <<"u","p","g","r","a","d","e">> >>

\* x in a_list
InList(x, list) == \E i \in DOMAIN list : list[i] = x

\* a_dict.get(key, default), for the configuration dict (a function whose
\* domain is the set of keys present)
conf_get(conf, key, default) == IF key \in DOMAIN conf THEN conf[key] ELSE default

\* a_dict[key] = value, for the configuration dict
conf_set(conf, key, value) ==
    [k \in DOMAIN conf \cup {key} |-> IF k = key THEN value ELSE conf[k]]

\* key in a_dict, for a header dict (a sequence of <<key, value>> pairs)
dict_has(d, key) == \E i \in DOMAIN d : d[i][1] = key

\* a_dict[key] = value, for a header dict: an existing key keeps its place
dict_set(d, key, value) ==
    IF dict_has(d, key)
    THEN [i \in DOMAIN d |-> IF d[i][1] = key THEN <<key, value>> ELSE d[i]]
    ELSE Append(d, <<key, value>>)

ROUTE_READ == "READ (Tailscale)"

ROUTE_WRITE == "WRITE (Cloudflare)"

(* ------------------------------------------------------------------ *)
(* RequestClassifier: get_target_url                                   *)
(* ------------------------------------------------------------------ *)

\* Faulty variant: the method is compared as received
is_read_method_exact(method) == InList(method, READ_METHODS)

\* method.upper() in READ_METHODS
is_read_method(method) == InList(upper(method), READ_METHODS)

\* target = f"{base}/{path}"
join_path(base, path) == base \o <<"/">> \o path

\* Faulty variant: the "?" is appended whether or not there is a query string
append_query_always(target, query_string) == target \o <<"?">> \o decode(query_string)

\* if request.query_string: target = f"{target}?{request.query_string.decode('utf-8')}"
append_query(target, query_string) ==
    IF query_string # <<>> THEN target \o <<"?">> \o decode(query_string) ELSE target

\* Faulty variant: the route class is named after the method as received,
\* while the base is chosen after the method in upper case
get_target_url_label_exact(conf, method, path, query_string) ==
    LET base == IF is_read_method(method)
                THEN rstrip(conf_get(conf, "tailscale_url", <<>>))
                ELSE rstrip(conf_get(conf, "cloudflare_url", <<>>))
        route_type == IF is_read_method_exact(method) THEN ROUTE_READ ELSE ROUTE_WRITE
    IN  [ base |-> base,
          route_type |-> route_type,
          target |-> append_query(join_path(base, path), query_string) ]

\* get_target_url(method, path) with the two things it reads from its
\* environment made parameters: conf is app_state.config and query_string is
\* request.query_string (bytes).  The result holds the returned pair
\* (target, route_type) and the local variable base.
get_target_url(conf, method, path, query_string) ==
    LET base == IF is_read_method(method)
                THEN rstrip(conf_get(conf, "tailscale_url", <<>>))
                ELSE rstrip(conf_get(conf, "cloudflare_url", <<>>))
        route_type == IF is_read_method(method) THEN ROUTE_READ ELSE ROUTE_WRITE
    IN  [ base |-> base,
          route_type |-> route_type,
          target |-> append_query(join_path(base, path), query_string) ]

(* ------------------------------------------------------------------ *)
(* HeaderSanitizer: clean_headers and the two filters inside proxy()   *)
(* ------------------------------------------------------------------ *)

H_HOST == <<"h","o","s","t">>

H_USER_AGENT == <<"U","s","e","r","-","A","g","e","n","t">>

PROXY_USER_AGENT == <<"SmartWebDAVProxy/2.0">>

H_CONTENT_ENCODING == <<"c","o","n","t","e","n","t","-","e","n","c","o","d","i","n","g">>

H_CONTENT_LENGTH == <<"c","o","n","t","e","n","t","-","l","e","n","g","t","h">>

\* The name under which request.headers yields a header received as `name`:
\* the WSGI server stores it in the environ as HTTP_<NAME> (upper case, "-"
\* written "_"), and request.headers turns that key back with "_" written
\* "-" and str.title().
header_key(name) == title(replace(replace(upper(name), "-", "_"), "_", "-"))

\* request.headers.items(): one pair per environ key; a header received
\* several times has its values joined by "," in the order received.
RECURSIVE request_headers_from(_, _)
request_headers_from(wire, acc) ==
    IF wire = <<>> THEN acc
    ELSE LET key == header_key(wire[1][1])
             value == wire[1][2]
             old == (CHOOSE i \in DOMAIN acc : acc[i][1] = key)
         IN  request_headers_from(
                 Tail(wire),
                 IF dict_has(acc, key)
                 THEN dict_set(acc, key, acc[old][2] \o <<",">> \o value)
                 ELSE Append(acc, <<key, value>>))

request_headers(wire) == request_headers_from(wire, <<>>)

\* Faulty variant: the header name is compared as received
keep_request_header_exact(key) ==
    ~InList(key, HOP_BY_HOP_HEADERS) /\ key # H_HOST

\* the test of clean_headers: the header is kept
keep_request_header(key) ==
    ~InList(lower(key), HOP_BY_HOP_HEADERS) /\ lower(key) # H_HOST

RECURSIVE clean_headers_from(_, _)
clean_headers_from(items, cleaned) ==
    IF items = <<>> THEN cleaned
    ELSE clean_headers_from(
             Tail(items),
             IF keep_request_header(items[1][1])
             THEN dict_set(cleaned, items[1][1], items[1][2])
             ELSE cleaned)

clean_headers(headers) == clean_headers_from(headers, <<>>)

\* Faulty variant: the User-Agent is set whether or not the client sent one
add_user_agent_always(cleaned) == dict_set(cleaned, H_USER_AGENT, PROXY_USER_AGENT)

\* proxy(): incoming_headers, after the User-Agent default
add_user_agent(cleaned) ==
    IF ~dict_has(cleaned, H_USER_AGENT)
    THEN dict_set(cleaned, H_USER_AGENT, PROXY_USER_AGENT)
    ELSE cleaned

incoming_headers_of(headers) == add_user_agent(clean_headers(headers))

\* Faulty variant: only the hop-by-hop headers are excluded
excluded_headers_hop_only == HOP_BY_HOP_HEADERS

\* proxy(): excluded_headers
excluded_headers ==
    HOP_BY_HOP_HEADERS \o
    << H_CONTENT_ENCODING, H_CONTENT_LENGTH,
       <<"t","r","a","n","s","f","e","r","-","e","n","c","o","d","i","n","g">>,
       <<"c","o","n","n","e","c","t","i","o","n">> >>

\* the test of the list comprehension: the response header is relayed
keep_response_header(name) == ~InList(lower(name), excluded_headers)

\* proxy(): headers, the list handed to Response(...)
response_headers(resp_headers) ==
    SelectSeq(resp_headers, LAMBDA p : keep_response_header(p[1]))

(* ------------------------------------------------------------------ *)
(* State                                                               *)
(* ------------------------------------------------------------------ *)

VARIABLES
    mainpc,          \* position of the main (Tk) thread
    ret,             \* where toggle_server returns to: the constructor or mainloop
    config,          \* the dict that is both self.config and app_state.config
    ts_url_var,      \* Tk variables behind the form
    cf_url_var,
    port_var,
    auto_start_var,
    start_btn,       \* state of the start button: "normal" or "disabled"
    gui_instance,    \* TRUE once the global gui_instance is bound
    running,         \* app_state.running
    server_thread,   \* app_state.server_thread: number of the thread, 0 for None
    threads,         \* number of server threads created so far
    srv,             \* position of the server thread (run_flask)
    srvlog,          \* lines run_flask and toggle_server handed to the log sink
    published,       \* history: the configuration as last written in whole
    req              \* per handler thread: the request it is serving (proxy)

vars == << mainpc, ret, config, ts_url_var, cf_url_var, port_var, auto_start_var,
           start_btn, gui_instance, running, server_thread, threads, srv, srvlog,
           published, req >>

guivars == << mainpc, ret, config, ts_url_var, cf_url_var, port_var,
              auto_start_var, start_btn, gui_instance, running, server_thread, threads,
              published >>

URL_A == <<"h","t","t","p",":","/","/","a">>

URL_B == <<"h","t","t","p",":","/","/","b">>

URL_A_SLASH == URL_A \o <<"/","/">>

PORT_8888 == <<"8","8","8","8">>

PORT_BAD == <<"w","e","b">>

DEFAULT_CONFIG ==
    [ tailscale_url |-> <<"h","t","t","p",":","/","/","1","9","2",".","1","6","8",
                          ".","1","0","0",".","1","0",":","5","0","0","0">>,
      cloudflare_url |-> <<"h","t","t","p","s",":","/","/","n","a","s",".",
                           "e","x","a","m","p","l","e",".","c","o","m">>,
      local_port |-> PORT_8888,
      auto_start |-> FALSE ]

\* The handler threads of the threaded Flask server
Handlers == {"h1", "h2"}

\* A handler thread with no request.  The fields are proxy()'s locals
\* (method, path, target, route_type, incoming_headers, resp as up), what the
\* client sent (query_string, wire: the header lines as received) and gets
\* (down), and history: base (the local of get_target_url), torn (the request
\* was routed between two writes of a configuration change), log (the
\* log_message calls made for the request), attempts (the requests made
\* upstream) and recv (the chunks iter_content has yielded).
IdleReq ==
    [ pc |-> "idle",
      method |-> <<>>, path |-> <<>>, query_string |-> <<>>, wire |-> <<>>,
      torn |-> FALSE,
      base |-> <<>>, target |-> <<>>, route_type |-> "", incoming_headers |-> <<>>,
      log |-> <<>>,
      attempts |-> 0,
      up |-> [kind |-> "none", err |-> <<>>, status |-> 0, headers |-> <<>>,
              chunks |-> <<>>],
      recv |-> <<>>,
      down |-> [state |-> "none", origin |-> "none", status |-> 0,
                headers |-> <<>>, text |-> <<>>, headers_sent |-> FALSE,
                chunks |-> <<>>] ]

(* ------------------------------------------------------------------ *)
(* Inputs of the control plane                                         *)
(* ------------------------------------------------------------------ *)

\* What webdav_config.json may hold when the program starts
FileConfigs ==
    { [ tailscale_url |-> URL_A, cloudflare_url |-> URL_B,
        local_port |-> PORT_8888, auto_start |-> TRUE ],
      [ tailscale_url |-> URL_A_SLASH, local_port |-> PORT_8888 ] }

\* What the user may have typed into the form when a button is pressed
FormInputs ==
    { [ ts |-> URL_A, cf |-> URL_B, port |-> PORT_8888, auto |-> FALSE ],
      [ ts |-> URL_B, cf |-> URL_A, port |-> PORT_8888, auto |-> TRUE ],
      [ ts |-> URL_A, cf |-> URL_A_SLASH, port |-> PORT_BAD, auto |-> FALSE ],
      [ ts |-> <<>>, cf |-> URL_B, port |-> PORT_8888, auto |-> FALSE ] }

\* int(text): defined when text is a non-empty string of digits
IsInt(text) ==
    /\ text # <<>>
    /\ \A i \in DOMAIN text :
          text[i] \in {"0","1","2","3","4","5","6","7","8","9"}

\* The two base URLs a request can read from a configuration
RouteView(conf) ==
    << conf_get(conf, "tailscale_url", <<>>), conf_get(conf, "cloudflare_url", <<>>) >>

(* ------------------------------------------------------------------ *)
(* Initial state: the module has been imported (AppState() constructed, *)
(* no window, no gui_instance yet)                                     *)
(* ------------------------------------------------------------------ *)

InitControl ==
    /\ mainpc = "load_config"
    /\ ret = "ctor"
    /\ config = DEFAULT_CONFIG
    /\ ts_url_var = <<>>
    /\ cf_url_var = <<>>
    /\ port_var = <<>>
    /\ auto_start_var = FALSE
    /\ start_btn = "normal"
    /\ gui_instance = FALSE
    /\ running = FALSE
    /\ server_thread = 0
    /\ threads = 0
    /\ srv = "none"
    /\ srvlog = <<>>
    /\ published = DEFAULT_CONFIG

Init ==
    /\ InitControl
    /\ req = [h \in Handlers |-> IdleReq]

(* ------------------------------------------------------------------ *)
(* Main thread: SmartGatewayGUI.__init__, then the Tk main loop        *)
(* ------------------------------------------------------------------ *)

\* load_config: the file's content, or DEFAULT_CONFIG.copy() when the file is
\* missing or unreadable; app_state.config = self.config
load_config ==
    /\ mainpc = "load_config"
    /\ \E c \in FileConfigs \cup {DEFAULT_CONFIG} :
          /\ config' = c
          /\ published' = c
    /\ mainpc' = "create_widgets"
    /\ UNCHANGED << ret, ts_url_var, cf_url_var, port_var, auto_start_var, start_btn,
                    gui_instance, running, server_thread, threads, srv, srvlog, req >>

\* create_widgets (and setup_tray): the form shows the loaded configuration
create_widgets ==
    /\ mainpc = "create_widgets"
    /\ ts_url_var' = conf_get(config, "tailscale_url", <<>>)
    /\ cf_url_var' = conf_get(config, "cloudflare_url", <<>>)
    /\ port_var' = conf_get(config, "local_port", <<>>)
    /\ auto_start_var' = conf_get(config, "auto_start", FALSE)
    /\ start_btn' = "normal"
    /\ mainpc' = "auto_start"
    /\ UNCHANGED << ret, config, gui_instance, running, server_thread, threads,
                    srv, srvlog, published, req >>

\* if self.config.get("auto_start", False): self.toggle_server()
ctor_auto_start ==
    /\ mainpc = "auto_start"
    /\ mainpc' = IF conf_get(config, "auto_start", FALSE) THEN "t233" ELSE "bind"
    /\ ret' = "ctor"
    /\ UNCHANGED << config, ts_url_var, cf_url_var, port_var, auto_start_var, start_btn,
                    gui_instance, running, server_thread, threads, srv, srvlog,
                    published, req >>

\* gui_instance = SmartGatewayGUI(root): the constructor has returned
bind_gui_instance ==
    /\ mainpc = "bind"
    /\ gui_instance' = TRUE
    /\ mainpc' = "mainloop"
    /\ UNCHANGED << ret, config, ts_url_var, cf_url_var, port_var, auto_start_var,
                    start_btn, running, server_thread, threads, srv, srvlog,
                    published, req >>

\* The user edits the form while the main loop is idle
user_edit ==
    /\ mainpc = "mainloop"
    /\ \E f \in FormInputs :
          /\ ts_url_var' = f.ts
          /\ cf_url_var' = f.cf
          /\ port_var' = f.port
          /\ auto_start_var' = f.auto
    /\ UNCHANGED << mainpc, ret, config, start_btn, gui_instance, running,
                    server_thread, threads, srv, srvlog, published, req >>

\* The save button: save_config starts
click_save ==
    /\ mainpc = "mainloop"
    /\ mainpc' = "s156"
    /\ UNCHANGED << ret, config, ts_url_var, cf_url_var, port_var, auto_start_var,
                    start_btn, gui_instance, running, server_thread, threads, srv,
                    srvlog, published, req >>

\* One assignment self.config[key] = value of save_config or toggle_server
store_config(at, key, value, next) ==
    /\ mainpc = at
    /\ config' = conf_set(config, key, value)
    /\ mainpc' = next
    /\ UNCHANGED << ret, ts_url_var, cf_url_var, port_var, auto_start_var, start_btn,
                    gui_instance, running, server_thread, threads, srv, srvlog,
                    published, req >>

save_config_156 == store_config("s156", "tailscale_url", ts_url_var, "s157")

save_config_157 == store_config("s157", "cloudflare_url", cf_url_var, "s158")

save_config_158 == store_config("s158", "local_port", port_var, "s159")

\* self.config["auto_start"] = ...; app_state.config = self.config
save_config_159 ==
    /\ mainpc = "s159"
    /\ config' = conf_set(config, "auto_start", auto_start_var)
    /\ published' = config'
    /\ mainpc' = "s163"
    /\ UNCHANGED << ret, ts_url_var, cf_url_var, port_var, auto_start_var, start_btn,
                    gui_instance, running, server_thread, threads, srv, srvlog, req >>

\* json.dump to the file and the message box, whether the write succeeds or not
save_config_163 ==
    /\ mainpc = "s163"
    /\ mainpc' = "mainloop"
    /\ UNCHANGED << ret, config, ts_url_var, cf_url_var, port_var, auto_start_var,
                    start_btn, gui_instance, running, server_thread, threads, srv,
                    srvlog, published, req >>

\* The start button, which line 249 disables for good
click_start ==
    /\ mainpc = "mainloop"
    /\ start_btn = "normal"
    /\ mainpc' = "t233"
    /\ ret' = "mainloop"
    /\ UNCHANGED << config, ts_url_var, cf_url_var, port_var, auto_start_var, start_btn,
                    gui_instance, running, server_thread, threads, srv, srvlog,
                    published, req >>

AfterToggle == IF ret = "ctor" THEN "bind" ELSE "mainloop"

\* toggle_server: if app_state.running: warn and return
toggle_server_233 ==
    /\ mainpc = "t233"
    /\ mainpc' = IF running THEN AfterToggle ELSE "t239"
    /\ UNCHANGED << ret, config, ts_url_var, cf_url_var, port_var, auto_start_var,
                    start_btn, gui_instance, running, server_thread, threads, srv,
                    srvlog, published, req >>

toggle_server_239 == store_config("t239", "tailscale_url", ts_url_var, "t240")

toggle_server_240 == store_config("t240", "cloudflare_url", cf_url_var, "t241")

toggle_server_241 ==
    /\ mainpc = "t241"
    /\ config' = conf_set(config, "local_port", port_var)
    /\ published' = config'
    /\ mainpc' = "t244"
    /\ UNCHANGED << ret, ts_url_var, cf_url_var, port_var, auto_start_var, start_btn,
                    gui_instance, running, server_thread, threads, srv, srvlog, req >>

\* t = threading.Thread(target=run_flask, daemon=True); t.start()
toggle_server_244 ==
    /\ mainpc = "t244"
    /\ threads' = threads + 1
    /\ srv' = "started"
    /\ mainpc' = "t246"
    /\ UNCHANGED << ret, config, ts_url_var, cf_url_var, port_var, auto_start_var,
                    start_btn, gui_instance, running, server_thread, srvlog,
                    published, req >>

\* app_state.running = True; app_state.server_thread = t
toggle_server_246 ==
    /\ mainpc = "t246"
    /\ running' = TRUE
    /\ server_thread' = threads
    /\ mainpc' = "t249"
    /\ UNCHANGED << ret, config, ts_url_var, cf_url_var, port_var, auto_start_var,
                    start_btn, gui_instance, threads, srv, srvlog, published, req >>

\* the button is disabled and two lines go to the log through self.append_log
toggle_server_249 ==
    /\ mainpc = "t249"
    /\ start_btn' = "disabled"
    /\ srvlog' = srvlog \o <<"started", "address">>
    /\ mainpc' = AfterToggle
    /\ UNCHANGED << ret, config, ts_url_var, cf_url_var, port_var, auto_start_var,
                    gui_instance, running, server_thread, threads, srv, published, req >>

(* ------------------------------------------------------------------ *)
(* Server thread: run_flask                                            *)
(* ------------------------------------------------------------------ *)

\* port = int(app_state.config.get("local_port", 8888)): ValueError on text
\* that is no number
run_flask_118 ==
    /\ srv = "started"
    /\ srv' = IF IsInt(conf_get(config, "local_port", PORT_8888)) THEN "log119" ELSE "except"
    /\ UNCHANGED << guivars, srvlog, req >>

\* log_message("...listening on port"): NameError while gui_instance is unbound
run_flask_119 ==
    /\ srv = "log119"
    /\ IF gui_instance
       THEN srvlog' = Append(srvlog, "starting") /\ srv' = "run"
       ELSE srvlog' = srvlog /\ srv' = "except"
    /\ UNCHANGED << guivars, req >>

\* flask_app.run(...): the port is bound and the server listens
run_flask_121 ==
    /\ srv = "run"
    /\ srv' = "listening"
    /\ UNCHANGED << guivars, srvlog, req >>

\* flask_app.run(...): the port cannot be bound.  The server library either
\* raises OSError (caught at line 122) or, in its newer versions, prints the
\* error and calls sys.exit, which ends the thread past the except clause.
run_flask_121_fail ==
    /\ srv = "run"
    /\ srv' \in {"except", "dead"}
    /\ UNCHANGED << guivars, srvlog, req >>

\* Faulty variant: the except clause also takes back app_state.running
run_flask_123_resets ==
    /\ srv = "except"
    /\ srvlog' = IF gui_instance THEN Append(srvlog, "failed") ELSE srvlog
    /\ srv' = "dead"
    /\ running' = FALSE
    /\ UNCHANGED << mainpc, ret, config, ts_url_var, cf_url_var, port_var,
                    auto_start_var, start_btn, gui_instance, server_thread, threads,
                    published, req >>

\* except Exception as e: log_message("...start failed"); a NameError raised
\* here ends the thread as well
run_flask_123 ==
    /\ srv = "except"
    /\ srvlog' = IF gui_instance THEN Append(srvlog, "failed") ELSE srvlog
    /\ srv' = "dead"
    /\ UNCHANGED << guivars, req >>

(* ------------------------------------------------------------------ *)
(* Handler threads: proxy(path), one request at a time per thread      *)
(* ------------------------------------------------------------------ *)

\* A request, as the handler receives it
Request(method, path, query_string, wire) ==
    [ method |-> method, path |-> path, query_string |-> query_string, wire |-> wire ]

\* What requests.request(...) can do: raise, or return a response
UpError(err) ==
    [ kind |-> "error", err |-> err, status |-> 0, headers |-> <<>>, chunks |-> <<>> ]

UpResponse(status, headers, chunks) ==
    [ kind |-> "response", err |-> <<>>, status |-> status, headers |-> headers,
      chunks |-> chunks ]

\* The response the WSGI server produces itself for an exception that leaves
\* the view function or the body iterator before the headers are sent
ServerError ==
    [ state |-> "complete", origin |-> "server", status |-> 500, headers |-> <<>>,
      text |-> <<"Internal Server Error">>, headers_sent |-> TRUE, chunks |-> <<>> ]

\* Faulty variant: the line is handed to the sink twice
log_message_twice(log, line) ==
    IF gui_instance THEN Append(Append(log, line), line) ELSE log

\* log_message(message), called by a handler: the line reaches the sink
\* through gui_instance.append_log; while gui_instance is unbound the test
\* `if gui_instance` raises NameError
log_message(log, line) == IF gui_instance THEN Append(log, line) ELSE log

\* The methods of the two @flask_app.route decorators; Flask adds HEAD to a
\* route that takes GET.  A request with any other method is answered 405 by
\* Flask and never reaches proxy().
ROUTE_METHODS ==
    << <<"G","E","T">>, <<"P","O","S","T">>, <<"P","U","T">>,
       <<"D","E","L","E","T","E">>, <<"O","P","T","I","O","N","S">>,
       <<"P","R","O","P","F","I","N","D">>, <<"M","K","C","O","L">>,
       <<"M","O","V","E">>, <<"C","O","P","Y">>, <<"L","O","C","K">>,
       <<"U","N","L","O","C","K">>, <<"P","R","O","P","P","A","T","C","H">>,
       <<"H","E","A","D">> >>

\* The server accepts a request and a handler thread calls proxy(path)
proxy_recv(h, requests) ==
    /\ srv = "listening"
    /\ req[h].pc = "idle"
    /\ \E r \in requests :
          /\ InList(upper(r.method), ROUTE_METHODS)
          /\ req' = [req EXCEPT ![h] =
                     [IdleReq EXCEPT !.pc = "route", !.method = r.method,
                                     !.path = r.path,
                                     !.query_string = r.query_string,
                                     !.wire = r.wire]]
    /\ UNCHANGED << guivars, srv, srvlog >>

\* lines 79-84: get_target_url reads app_state.config; the headers to send
proxy_80(h) ==
    /\ req[h].pc = "route"
    /\ LET d == get_target_url(config, req[h].method, req[h].path,
                               req[h].query_string)
       IN  req' = [req EXCEPT ![h].pc = "log",
                              ![h].base = d.base,
                              ![h].target = d.target,
                              ![h].route_type = d.route_type,
                              ![h].torn = RouteView(config) \notin
                                  { RouteView(published), <<ts_url_var, cf_url_var>> },
                              ![h].incoming_headers =
                                  incoming_headers_of(request_headers(req[h].wire))]
    /\ UNCHANGED << guivars, srv, srvlog >>

\* line 86: log_message(f"[{method}] {route_type}: /{path}")
proxy_86(h) ==
    /\ req[h].pc = "log"
    /\ req' = [req EXCEPT
                 ![h].log = log_message(@, [ kind |-> "route",
                                             method |-> req[h].method,
                                             route_type |-> req[h].route_type,
                                             path |-> <<"/">> \o req[h].path ]),
                 ![h].pc = IF gui_instance THEN "send" ELSE "done",
                 ![h].down = IF gui_instance THEN @ ELSE ServerError]
    /\ UNCHANGED << guivars, srv, srvlog >>

\* Faulty variant: the redirects are followed (the default of requests)
ALLOW_REDIRECTS_default == TRUE

\* allow_redirects=False
ALLOW_REDIRECTS == FALSE

IsRedirect(o) == o.kind = "response" /\ o.status \in 301..308

\* requests.request(...): the upstream answers the request with o (or the
\* request fails with o); when redirects are followed, a 3xx answer is not
\* returned but followed by a second request, whose outcome is returned.
\* sent counts the requests made upstream.
requests_request(o, allow_redirects, outcomes) ==
    IF allow_redirects /\ IsRedirect(o)
    THEN { [sent |-> 2, result |-> o2] : o2 \in { x \in outcomes : ~IsRedirect(x) } }
    ELSE { [sent |-> 1, result |-> o] }

\* lines 89-97: the call of requests.request
proxy_89(h, outcomes) ==
    /\ req[h].pc = "send"
    /\ \E o \in outcomes :
          \E x \in requests_request(o, ALLOW_REDIRECTS, outcomes) :
             req' = [req EXCEPT
                       ![h].attempts = @ + x.sent,
                       ![h].up = x.result,
                       ![h].pc = IF x.result.kind = "error" THEN "except" ELSE "respond"]
    /\ UNCHANGED << guivars, srv, srvlog >>

\* lines 99-109: the Response that relays the upstream response
proxy_99(h) ==
    /\ req[h].pc = "respond"
    /\ req' = [req EXCEPT
                 ![h].pc = "stream",
                 ![h].down = [ state |-> "open", origin |-> "upstream",
                               status |-> req[h].up.status,
                               headers |-> response_headers(req[h].up.headers),
                               text |-> <<>>, headers_sent |-> FALSE,
                               chunks |-> <<>> ]]
    /\ UNCHANGED << guivars, srv, srvlog >>

\* Faulty variant: the message does not carry the exception's text
err_msg_of_bare(err) == <<"Error: ">>

\* err_msg = f"Error: {str(e)}"
err_msg_of(err) == <<"Error: ">> \o err

\* Faulty variant: a failed upstream call also marks the server as stopped
proxy_110_stops(h) ==
    /\ req[h].pc = "except"
    /\ req' = [req EXCEPT
                 ![h].pc = "done",
                 ![h].log = log_message(@, [ kind |-> "error",
                                             text |-> err_msg_of(req[h].up.err) ]),
                 ![h].down = [ state |-> "complete", origin |-> "proxy",
                               status |-> 502, headers |-> <<>>,
                               text |-> err_msg_of(req[h].up.err),
                               headers_sent |-> TRUE, chunks |-> <<>> ]]
    /\ running' = FALSE
    /\ UNCHANGED << mainpc, ret, config, ts_url_var, cf_url_var, port_var,
                    auto_start_var, start_btn, gui_instance, server_thread, threads,
                    published, srv, srvlog >>

\* lines 110-113: except Exception as e
proxy_110(h) ==
    /\ req[h].pc = "except"
    /\ req' = [req EXCEPT
                 ![h].pc = "done",
                 ![h].log = log_message(@, [ kind |-> "error",
                                             text |-> err_msg_of(req[h].up.err) ]),
                 ![h].down = IF gui_instance
                             THEN [ state |-> "complete", origin |-> "proxy",
                                    status |-> 502, headers |-> <<>>,
                                    text |-> err_msg_of(req[h].up.err),
                                    headers_sent |-> TRUE, chunks |-> <<>> ]
                             ELSE ServerError]
    /\ UNCHANGED << guivars, srv, srvlog >>

\* Faulty variant: the iterator starts over at each call
iter_content_next_first(body, received) == body[1]

\* next(resp.iter_content(chunk_size=4096)): the chunk after those received
iter_content_next(body, received) == body[Len(received) + 1]

\* resp.iter_content(chunk_size=4096) yields the next chunk of the body, once
\* the chunk before it has been written downstream
stream_pull(h) ==
    /\ req[h].pc = "stream"
    /\ Len(req[h].down.chunks) = Len(req[h].recv)
    /\ Len(req[h].recv) < Len(req[h].up.chunks)
    /\ req' = [req EXCEPT ![h].recv = Append(@, iter_content_next(req[h].up.chunks, @))]
    /\ UNCHANGED << guivars, srv, srvlog >>

\* The WSGI server writes the chunk downstream; the first write sends the
\* status line and the headers before the chunk
stream_write(h) ==
    /\ req[h].pc = "stream"
    /\ Len(req[h].down.chunks) < Len(req[h].recv)
    /\ req' = [req EXCEPT ![h].down.headers_sent = TRUE,
                          ![h].down.chunks =
                              Append(@, req[h].recv[Len(@) + 1])]
    /\ UNCHANGED << guivars, srv, srvlog >>

\* The body iterator is exhausted: the headers are sent if no chunk was
\* written, and the response is complete
stream_end(h) ==
    /\ req[h].pc = "stream"
    /\ Len(req[h].down.chunks) = Len(req[h].up.chunks)
    /\ req' = [req EXCEPT ![h].down.headers_sent = TRUE,
                          ![h].down.state = "complete",
                          ![h].pc = "done"]
    /\ UNCHANGED << guivars, srv, srvlog >>

\* The upstream body stream fails: iter_content raises outside proxy()'s try.
\* With the headers already sent the server can only drop the connection;
\* before that it answers with its own error page.
stream_fail(h) ==
    /\ req[h].pc = "stream"
    /\ Len(req[h].down.chunks) = Len(req[h].recv)
    /\ req' = [req EXCEPT ![h].pc = "done",
                          ![h].down = IF req[h].down.headers_sent
                                      THEN [@ EXCEPT !.state = "aborted"]
                                      ELSE ServerError]
    /\ UNCHANGED << guivars, srv, srvlog >>

\* The request is over; the thread is free for the next one
proxy_done(h) ==
    /\ req[h].pc = "done"
    /\ req' = [req EXCEPT ![h] = IdleReq]
    /\ UNCHANGED << guivars, srv, srvlog >>

(* ------------------------------------------------------------------ *)
(* The whole program: window, server thread and handler threads        *)
(* ------------------------------------------------------------------ *)

M_GET == <<"G","E","T">>

M_PUT == <<"P","U","T">>

P_DOC == <<"f","i","l","e","s","/","d","o","c",".","t","x","t">>

\* b"x=1"
Q_X1 == <<120, 61, 49>>

ERR_REFUSED == <<"Connection refused">>

SysRequests ==
    { Request(M_GET, P_DOC, Q_X1, <<>>), Request(M_PUT, P_DOC, <<>>, <<>>) }

H_LOCATION == <<"L","o","c","a","t","i","o","n">>

SysOutcomes ==
    { UpError(ERR_REFUSED),
      UpResponse(404, <<>>, <<"missing">>),
      UpResponse(302, << <<H_LOCATION, <<"http://b/new">> >> >>, <<>>),
      UpResponse(502, <<>>, <<>>) }

Control ==
    \/ load_config
    \/ create_widgets
    \/ ctor_auto_start
    \/ bind_gui_instance
    \/ user_edit
    \/ click_save
    \/ save_config_156
    \/ save_config_157
    \/ save_config_158
    \/ save_config_159
    \/ save_config_163
    \/ click_start
    \/ toggle_server_233
    \/ toggle_server_239
    \/ toggle_server_240
    \/ toggle_server_241
    \/ toggle_server_244
    \/ toggle_server_246
    \/ toggle_server_249
    \/ run_flask_118
    \/ run_flask_119
    \/ run_flask_121
    \/ run_flask_121_fail
    \/ run_flask_123

Serve(h, requests, outcomes) ==
    \/ proxy_recv(h, requests)
    \/ proxy_80(h)
    \/ proxy_86(h)
    \/ proxy_89(h, outcomes)
    \/ proxy_99(h)
    \/ proxy_110(h)
    \/ stream_pull(h)
    \/ stream_write(h)
    \/ stream_end(h)
    \/ stream_fail(h)
    \/ proxy_done(h)

\* Handler threads share nothing but what they read (app_state.config and
\* gui_instance), so one of them is run against the window and the server
\* thread; SpecRoute below runs two side by side.
SysHandlers == {"h1"}

Next ==
    \/ Control
    \/ \E h \in SysHandlers : Serve(h, SysRequests, SysOutcomes)

Spec == Init /\ [][Next]_vars

(* ------------------------------------------------------------------ *)
(* Properties of the whole program (Spec)                              *)
(* ------------------------------------------------------------------ *)

\* sub occurs in text as a contiguous run
Contains(text, sub) ==
    \E i \in 1..(Len(text) - Len(sub) + 1) : SubSeq(text, i, i + Len(sub) - 1) = sub

IsPrefix(a, b) == Len(a) <= Len(b) /\ SubSeq(b, 1, Len(a)) = a

\* C3 (as claimed): a configuration change is published atomically: every
\* request is routed while the two base URLs visible in app_state.config are
\* those of one configuration written in whole, the one before the change or
\* the one after it, never the read URL of one with the write URL of the other.
C3_AtomicPublish == \A h \in Handlers : ~req[h].torn

\* C4: a request whose upstream call fails before a response is obtained is
\* answered 502 with a body that contains the error description, and the
\* proxy manufactures a response (always a 502) only then: a response the
\* upstream returned, its own 502 included, is relayed and never replaced.
C4_BadGatewayOnlyOnFailure ==
    \A h \in Handlers :
       LET r == req[h] IN
       /\ (r.pc = "done" /\ r.up.kind = "error") =>
             /\ r.down.origin = "proxy"
             /\ r.down.status = 502
             /\ r.up.err # <<>>
             /\ Contains(r.down.text, r.up.err)
       /\ r.down.origin = "proxy" => (r.up.kind = "error" /\ r.down.status = 502)
       /\ (r.up.kind = "response" /\ r.down.state # "none") => r.down.origin # "proxy"
       /\ r.down.origin = "upstream" => r.down.status = r.up.status

C4_Witness ==
    \E h \in Handlers :
       /\ req[h].pc = "done"
       /\ req[h].up = UpError(ERR_REFUSED)
       /\ req[h].down.status = 502
       /\ req[h].down.text = <<"Error: ", "Connection refused">>

\* C5 (as claimed): when the upstream connection is refused, proxy() has
\* made exactly one log_message call for the request by the time it ends.
C5_OneLogLine ==
    \A h \in Handlers :
       (req[h].pc = "done" /\ req[h].up = UpError(ERR_REFUSED)) => Len(req[h].log) = 1

\* C5 (amended): when the upstream connection is refused, proxy() has made
\* exactly two log_message calls for the request: the routing line of line
\* 86, then exactly one error line, "Error: " and the error description.
C5_OneErrorLine ==
    \A h \in Handlers :
       LET r == req[h] IN
       (r.pc = "done" /\ r.up = UpError(ERR_REFUSED)) =>
          /\ Len(r.log) = 2
          /\ r.log[1].kind = "route"
          /\ r.log[2] = [ kind |-> "error", text |-> <<"Error: ", "Connection refused">> ]

C5_Witness ==
    \E h \in Handlers :
       /\ req[h].pc = "done"
       /\ req[h].up = UpError(ERR_REFUSED)
       /\ Len(req[h].log) = 2

\* C10: every request handled by proxy() makes exactly one upstream request:
\* none before the call of requests.request, one from then on, whether the
\* call failed (the request ends in 502), returned a 3xx answer (relayed, not
\* followed) or returned anything else.
C10_OneAttempt ==
    \A h \in Handlers :
       LET r == req[h] IN
       /\ r.pc \in {"idle", "route", "log", "send"} => r.attempts = 0
       /\ r.pc \in {"except", "respond", "stream", "done"} => r.attempts = 1
       /\ (r.up.kind = "response" /\ r.up.status \in 301..308
              /\ r.down.origin = "upstream") =>
             r.down.status = r.up.status

C10_Witness ==
    /\ \E h \in Handlers :
          /\ req[h].pc = "done"
          /\ req[h].down.origin = "proxy"
          /\ req[h].down.status = 502
          /\ req[h].attempts = 1

\* The threads of run_flask that have not terminated
SrvAlive == {"started", "log119", "run", "except", "listening"}

\* C11 (as claimed): the server can be brought from Running back to Stopped
\* by a stop request of the control plane, a toggle_server call made while
\* app_state.running is true: whenever the server runs and the window is idle
\* in its main loop, the one control that calls toggle_server, the button,
\* takes the request.
C11_StopFromRunning ==
    (running /\ mainpc = "mainloop") => start_btn = "normal"

\* ts, cf and port are a configuration the server may start with: two
\* non-empty base URLs and a port that is an integer
ValidStartConfig(conf) ==
    /\ conf_get(conf, "tailscale_url", <<>>) # <<>>
    /\ conf_get(conf, "cloudflare_url", <<>>) # <<>>
    /\ IsInt(conf_get(conf, "local_port", <<>>))

\* C12 (as claimed): a start attempt made with an invalid configuration (an
\* empty read or write base URL, or a port that is no integer) fails:
\* toggle_server never gets past line 246, where app_state.running is set,
\* with such a configuration stored by its lines 239-241, and so never
\* reports the service as started.
C12_InvalidStartFails ==
    mainpc = "t249" => (running => ValidStartConfig(config))

\* C13 (as claimed): when the upstream body stream fails after the status and
\* the headers were sent downstream, the connection is ended with the relayed
\* status standing (no 502, no second response), and proxy() has handed a
\* line about the failure to the log sink, after the routing line.
C13_MidStreamLogged ==
    \A h \in Handlers :
       LET r == req[h] IN
       (r.pc = "done" /\ r.down.state = "aborted") =>
          /\ r.down.origin = "upstream"
          /\ r.down.headers_sent
          /\ r.down.status = r.up.status
          /\ \E i \in DOMAIN r.log : r.log[i].kind = "error"

\* C14: request handling never modifies shared state: every step of proxy(),
\* on the relaying path and on the 502 path alike, leaves app_state.config,
\* app_state.running, app_state.server_thread and the server thread as they
\* were, and the step that routes a request derives its target and route
\* class from the request and the configuration of that moment alone.
C14_ProxyFrame ==
    [][ \A h \in Handlers :
           req'[h] # req[h] =>
              /\ UNCHANGED << config, running, server_thread, threads, srv >>
              /\ (req[h].pc = "route" /\ req'[h].pc = "log") =>
                    LET d == get_target_url(config, req[h].method, req[h].path,
                                            req[h].query_string)
                    IN  /\ req'[h].target = d.target
                        /\ req'[h].route_type = d.route_type
      ]_vars

\* A request has failed with 502 and the server is running as before
C14_Witness ==
    \E h \in Handlers :
       /\ req[h].pc = "done"
       /\ req[h].up.kind = "error"
       /\ req[h].down.origin = "proxy"
       /\ running
       /\ server_thread = 1
       /\ srv = "listening"

\* C16: whatever toggle_server calls are made, from the constructor
\* (auto_start) and from the start button, at most one server thread is ever
\* created, and app_state.running never goes from true back to false.
C16_OneThreadMonotone ==
    /\ [](threads <= 1 /\ server_thread <= 1)
    /\ [][running => running']_vars

\* toggle_server was called from the constructor, the server was started and
\* the window is back in its main loop with the start button disabled
C16_Witness ==
    /\ threads = 1
    /\ running
    /\ ret = "ctor"
    /\ mainpc = "mainloop"
    /\ start_btn = "disabled"

\* C17 (as claimed): every log_message call, in run_flask (lines 119 and 123)
\* and in proxy() (lines 86 and 112), is made when the global gui_instance is
\* bound, and the call of line 119 returns, so that run_flask goes on to
\* flask_app.run.
C17_LogAfterBind ==
    [][ /\ (srv = "log119" /\ srv' # srv) => (gui_instance /\ srv' = "run")
        /\ (srv = "except" /\ srv' # srv) => gui_instance
        /\ \A h \in Handlers :
              (req[h].pc \in {"log", "except"} /\ req'[h].pc # req[h].pc) =>
                 gui_instance
      ]_vars

\* C18 (as claimed): app_state.running is true only while the server thread
\* has not terminated.
C18_RunningMeansAlive == running => srv \in SrvAlive

(* ------------------------------------------------------------------ *)
(* The proxy at work: the window is idle in its main loop, the server  *)
(* thread listens, and requests of wider shapes arrive                 *)
(* ------------------------------------------------------------------ *)

\* A configuration as toggle_server leaves it: lines 239-241 have stored the
\* three form fields, so the two URL keys are present (possibly empty)
ServingConfig(ts, cf) ==
    [ tailscale_url |-> ts, cloudflare_url |-> cf,
      local_port |-> PORT_8888, auto_start |-> FALSE ]

\* The state once the start button has been pressed under configuration conf
\* and run_flask has reached flask_app.run
Serving(conf) ==
    /\ mainpc = "mainloop"
    /\ ret = "mainloop"
    /\ config = conf
    /\ ts_url_var = conf.tailscale_url
    /\ cf_url_var = conf.cloudflare_url
    /\ port_var = conf.local_port
    /\ auto_start_var = conf.auto_start
    /\ start_btn = "disabled"
    /\ gui_instance = TRUE
    /\ running = TRUE
    /\ server_thread = 1
    /\ threads = 1
    /\ srv = "listening"
    /\ srvlog = <<"started", "address", "starting">>
    /\ published = conf
    /\ req = [h \in Handlers |-> IdleReq]

(* ---------------- routing: get_target_url ---------------- *)

URL_B_SLASH == URL_B \o <<"/">>

RouteConfigs ==
    { ServingConfig(URL_A, URL_B),
      ServingConfig(URL_A_SLASH, URL_B_SLASH),
      ServingConfig(URL_A, URL_A),
      ServingConfig(<<>>, URL_B) }

RouteMethodInputs ==
    { M_GET, <<"g","e","t">>, <<"H","e","a","d">>, <<"O","P","T","I","O","N","S">>,
      <<"p","r","o","p","F","I","N","D">>, M_PUT, <<"p","o","s","t">>,
      <<"M","K","C","O","L">>, <<"P","A","T","C","H">> }

RoutePathInputs == { <<>>, P_DOC }

\* b"", b"x=1", b"y=/?%20"
RouteQueryInputs == { <<>>, Q_X1, <<121, 61, 47, 63, 37, 50, 48>> }

RouteRequests ==
    { Request(m, p, q, <<>>) :
        m \in RouteMethodInputs, p \in RoutePathInputs, q \in RouteQueryInputs }

InitRoute == \E conf \in RouteConfigs : Serving(conf)

NextRoute ==
    \E h \in Handlers :
       \/ proxy_recv(h, RouteRequests)
       \/ proxy_80(h)

SpecRoute == InitRoute /\ [][NextRoute]_vars

\* url is base followed by nothing but "/" characters, and base ends in none
StripsTo(url, base) ==
    /\ IsPrefix(base, url)
    /\ base = <<>> \/ base[Len(base)] # "/"
    /\ \A i \in (Len(base) + 1)..Len(url) : url[i] = "/"

C1_ReadVerbs ==
    { <<"g","e","t">>, <<"h","e","a","d">>, <<"o","p","t","i","o","n","s">>,
      <<"p","r","o","p","f","i","n","d">> }

\* C1: a request is routed to the read base (tailscale_url, trailing slashes
\* dropped) exactly when its method is GET, HEAD, OPTIONS or PROPFIND in any
\* letter case, and to the write base (cloudflare_url) otherwise; two requests
\* with the same method under the same configuration get the same base and
\* route class whatever their paths and query strings.
C1_ReadWriteSplit ==
    /\ \A h \in Handlers :
          LET r == req[h] IN
          r.pc = "log" =>
             IF lower(r.method) \in C1_ReadVerbs
             THEN StripsTo(config.tailscale_url, r.base) /\ r.route_type = ROUTE_READ
             ELSE StripsTo(config.cloudflare_url, r.base) /\ r.route_type = ROUTE_WRITE
    /\ \A h1, h2 \in Handlers :
          (req[h1].pc = "log" /\ req[h2].pc = "log" /\ req[h1].method = req[h2].method) =>
             (req[h1].base = req[h2].base /\ req[h1].route_type = req[h2].route_type)

C1_Witness ==
    /\ config.tailscale_url = URL_A_SLASH
    /\ req["h1"].pc = "log" /\ req["h2"].pc = "log"
    /\ req["h1"].method = <<"g","e","t">> /\ req["h2"].method = <<"g","e","t">>
    /\ req["h1"].path # req["h2"].path
    /\ req["h1"].query_string # req["h2"].query_string
    /\ req["h1"].base = URL_A /\ req["h2"].base = URL_A

\* C2: the target URL is the base, then "/", then the path, and then, exactly
\* when the raw query string is non-empty, "?" and the query string byte for
\* byte; with an empty path the target is the base and "/".
C2_TargetShape ==
    \A h \in Handlers :
       LET r == req[h]
           n == Len(r.base) + 1 + Len(r.path)
       IN  r.pc = "log" =>
             /\ SubSeq(r.target, 1, Len(r.base)) = r.base
             /\ r.target[Len(r.base) + 1] = "/"
             /\ SubSeq(r.target, Len(r.base) + 2, n) = r.path
             /\ r.query_string = <<>> => Len(r.target) = n
             /\ r.query_string # <<>> =>
                   /\ Len(r.target) = n + 1 + Len(r.query_string)
                   /\ r.target[n + 1] = "?"
                   /\ encode(SubSeq(r.target, n + 2, Len(r.target))) = r.query_string
             /\ (r.path = <<>> /\ r.query_string = <<>>) => r.target = r.base \o <<"/">>

\* GET /files/doc.txt?x=1 with the read base "http://a" gives
\* "http://a/files/doc.txt?x=1"
C2_Witness ==
    \E h \in Handlers :
       /\ req[h].pc = "log"
       /\ req[h].method = M_GET
       /\ req[h].query_string = Q_X1
       /\ req[h].base = URL_A
       /\ req[h].target = URL_A \o <<"/">> \o P_DOC \o <<"?", "x", "=", "1">>

(* ---------------- header sanitizing ---------------- *)

MaxReqHeaders == 2

MaxRespHeaders == 2

SeqsUpTo(S, n) == UNION { [1..k -> S] : k \in 0..n }

\* Header lines a client may send, in the letter case it sends them
ReqHeaderItems ==
    { << <<"H","o","s","t">>, <<"localhost:8888">> >>,
      << <<"u","s","e","r","-","a","g","e","n","t">>, <<"curl/8">> >>,
      << <<"U","s","e","r","-","A","g","e","n","t">>, <<"davfs2">> >>,
      << <<"C","o","n","n","e","c","t","i","o","n">>, <<"keep-alive">> >>,
      << <<"t","e">>, <<"trailers">> >>,
      << <<"T","r","a","n","s","f","e","r","-","E","n","c","o","d","i","n","g">>, <<"chunked">> >>,
      << <<"D","e","p","t","h">>, <<"1">> >>,
      << <<"d","e","p","t","h">>, <<"0">> >> }

WireHeaderInputs == SeqsUpTo(ReqHeaderItems, MaxReqHeaders)

\* Headers an upstream may answer with
RespHeaderItems ==
    { << <<"C","o","n","t","e","n","t","-","L","e","n","g","t","h">>, <<"7">> >>,
      << <<"c","o","n","t","e","n","t","-","e","n","c","o","d","i","n","g">>, <<"gzip">> >>,
      << <<"T","r","a","n","s","f","e","r","-","E","n","c","o","d","i","n","g">>, <<"chunked">> >>,
      << <<"C","O","N","N","E","C","T","I","O","N">>, <<"close">> >>,
      << H_LOCATION, <<"http://b/new">> >>,
      << <<"E","T","a","g">>, <<"e1">> >> }

\* resp.headers holds one entry per header name
RespHeaderInputs ==
    { hs \in SeqsUpTo(RespHeaderItems, MaxRespHeaders) :
        \A i, j \in DOMAIN hs : i # j => hs[i] # hs[j] }

HeaderRequests == { Request(M_GET, <<>>, <<>>, w) : w \in WireHeaderInputs }

\* The request and the response headers are varied one at a time: a request
\* that carries header lines is answered with one fixed set of headers
HeaderOutcomes(wire) ==
    IF wire = <<>>
    THEN { UpResponse(IF \E i \in DOMAIN hs : hs[i][1] = H_LOCATION THEN 302 ELSE 200,
                      hs, <<>>) : hs \in RespHeaderInputs }
    ELSE { UpResponse(200, << << <<"C","O","N","N","E","C","T","I","O","N">>, <<"close">> >>,
                                << <<"E","T","a","g">>, <<"e1">> >> >>, <<>>) }

InitHeaders == Serving(ServingConfig(URL_A, URL_B))

NextHeaders ==
    \E h \in SysHandlers :
       \/ proxy_recv(h, HeaderRequests)
       \/ proxy_80(h)
       \/ proxy_86(h)
       \/ proxy_89(h, HeaderOutcomes(req[h].wire))
       \/ proxy_99(h)

SpecHeaders == InitHeaders /\ [][NextHeaders]_vars

C7_Dropped ==
    { <<"c","o","n","n","e","c","t","i","o","n">>,
      <<"k","e","e","p","-","a","l","i","v","e">>,
      <<"p","r","o","x","y","-","a","u","t","h","e","n","t","i","c","a","t","e">>,
      <<"p","r","o","x","y","-","a","u","t","h","o","r","i","z","a","t","i","o","n">>,
      <<"t","e">>,
      <<"t","r","a","i","l","e","r","s">>,
      <<"t","r","a","n","s","f","e","r","-","e","n","c","o","d","i","n","g">>,
      <<"u","p","g","r","a","d","e">>,
      <<"c","o","n","t","e","n","t","-","e","n","c","o","d","i","n","g">>,
      <<"c","o","n","t","e","n","t","-","l","e","n","g","t","h">> }

\* C7: the headers relayed downstream are, in the upstream's order and with
\* the upstream's names and values, exactly the upstream headers whose name
\* in lower case is neither one of the eight hop-by-hop names nor
\* content-encoding nor content-length; Location on a 3xx is among them.
C7_RelayedHeaders ==
    \A h \in Handlers :
       LET r == req[h] IN
       r.down.origin = "upstream" =>
          r.down.headers =
             SelectSeq(r.up.headers, LAMBDA p : lower(p[1]) \notin C7_Dropped)

C7_Witness ==
    \E h \in Handlers :
       /\ req[h].pc = "stream"
       /\ req[h].up.status = 302
       /\ req[h].up.headers = << << <<"C","o","n","t","e","n","t","-","L","e","n","g","t","h">>, <<"7">> >>,
                                 << H_LOCATION, <<"http://b/new">> >> >>
       /\ req[h].down.headers = << << H_LOCATION, <<"http://b/new">> >> >>

\* The inbound header lines whose name reads lname in lower case
WireIndexes(wire, lname) == { j \in DOMAIN wire : lower(wire[j][1]) = lname }

\* Their values in the order received, joined by ","
RECURSIVE JoinedValues(_, _)
JoinedValues(wire, lname) ==
    IF wire = <<>> THEN <<>>
    ELSE LET rest == JoinedValues(Tail(wire), lname) IN
         IF lower(wire[1][1]) # lname THEN rest
         ELSE IF rest = <<>> THEN wire[1][2]
         ELSE wire[1][2] \o <<",">> \o rest

C8_UserAgent == <<"u","s","e","r","-","a","g","e","n","t">>

C8_Removed == (C7_Dropped \ { H_CONTENT_ENCODING, H_CONTENT_LENGTH }) \cup { H_HOST }

\* C8: the headers sent upstream hold no hop-by-hop header and no Host header
\* in any letter case; every other inbound header is there once, with its
\* value (the values of a repeated header joined by ","); nothing else is
\* there but the User-Agent 'SmartWebDAVProxy/2.0', which is present exactly
\* when the client sent no User-Agent in any letter case.
C8_UpstreamHeaders ==
    \A h \in Handlers :
       LET r == req[h]
           sent == r.incoming_headers
           Named(lname) == { i \in DOMAIN sent : lower(sent[i][1]) = lname }
           clientUA == WireIndexes(r.wire, C8_UserAgent) # {}
       IN  r.pc \notin {"idle", "route"} =>
             /\ \A i \in DOMAIN sent : lower(sent[i][1]) \notin C8_Removed
             /\ \A j \in DOMAIN r.wire :
                   LET lname == lower(r.wire[j][1]) IN
                   lname \notin C8_Removed =>
                      /\ Cardinality(Named(lname)) = 1
                      /\ \A i \in Named(lname) :
                            sent[i][2] = JoinedValues(r.wire, lname)
             /\ \A i \in DOMAIN sent :
                   \/ WireIndexes(r.wire, lower(sent[i][1])) # {}
                   \/ sent[i] = << H_USER_AGENT, PROXY_USER_AGENT >>
             /\ Cardinality(Named(C8_UserAgent)) = 1
             /\ (\E i \in DOMAIN sent : sent[i][2] = PROXY_USER_AGENT) <=> ~clientUA

C8_Witness ==
    \E h \in Handlers :
       /\ req[h].pc = "log"
       /\ req[h].wire = << << <<"u","s","e","r","-","a","g","e","n","t">>, <<"curl/8">> >>,
                           << <<"H","o","s","t">>, <<"localhost:8888">> >> >>
       /\ req[h].incoming_headers = << << H_USER_AGENT, <<"curl/8">> >> >>

NoHopByHop(headers) ==
    \A i \in DOMAIN headers :
       lower(headers[i][1]) \notin (C7_Dropped \ { H_CONTENT_ENCODING, H_CONTENT_LENGTH })

\* C9: request-side sanitizing (clean_headers, then the User-Agent default)
\* and response-side sanitizing (the excluded_headers filter) each give the
\* same result when applied to their own output, and neither output holds a
\* hop-by-hop header: for the header lines as the client wrote them (any
\* letter case, repeats), for the headers request.headers yields, for the
\* upstream's headers, and for the two outputs proxy() computed.
C9_Idempotent ==
    \A h \in Handlers :
       LET r == req[h]
           Ok(x) ==
              /\ incoming_headers_of(incoming_headers_of(x)) = incoming_headers_of(x)
              /\ response_headers(response_headers(x)) = response_headers(x)
              /\ NoHopByHop(incoming_headers_of(x))
              /\ NoHopByHop(response_headers(x))
       IN  r.pc # "idle" =>
             /\ Ok(r.wire)
             /\ Ok(request_headers(r.wire))
             /\ Ok(r.up.headers)
             /\ r.pc # "route" =>
                   /\ incoming_headers_of(r.incoming_headers) = r.incoming_headers
                   /\ NoHopByHop(r.incoming_headers)
             /\ r.down.origin = "upstream" =>
                   /\ response_headers(r.down.headers) = r.down.headers
                   /\ NoHopByHop(r.down.headers)

C9_Witness ==
    \E h \in Handlers :
       /\ req[h].pc = "stream"
       /\ req[h].wire = << << <<"C","o","n","n","e","c","t","i","o","n">>, <<"keep-alive">> >>,
                           << <<"d","e","p","t","h">>, <<"0">> >> >>
       /\ req[h].incoming_headers =
             << << <<"D","e","p","t","h">>, <<"0">> >>,
                << H_USER_AGENT, PROXY_USER_AGENT >> >>
       /\ req[h].up.headers = << << <<"C","O","N","N","E","C","T","I","O","N">>, <<"close">> >>,
                                 << <<"E","T","a","g">>, <<"e1">> >> >>
       /\ req[h].down.headers = << << <<"E","T","a","g">>, <<"e1">> >> >>

(* ---------------- relaying the response ---------------- *)

MaxChunks == 2

BodyInputs == SeqsUpTo({"c1", "c2"}, MaxChunks)

RelayRequests == { Request(M_GET, P_DOC, <<>>, <<>>) }

RelayOutcomes == { UpResponse(st, <<>>, b) : st \in {200, 404}, b \in BodyInputs }

InitRelay == Serving(ServingConfig(URL_A, URL_B))

NextRelay ==
    \E h \in Handlers :
       \/ proxy_recv(h, RelayRequests)
       \/ proxy_80(h)
       \/ proxy_86(h)
       \/ proxy_89(h, RelayOutcomes)
       \/ proxy_99(h)
       \/ stream_pull(h)
       \/ stream_write(h)
       \/ stream_end(h)
       \/ stream_fail(h)
       \/ proxy_done(h)

SpecRelay == InitRelay /\ [][NextRelay]_vars

\* C6: while the proxy relays an upstream response, the downstream status is
\* the upstream status, no body chunk is delivered before the headers are
\* sent, the chunks delivered are a prefix of the chunks received from the
\* upstream, themselves a prefix of the body the upstream sends, and when the
\* exchange completes the chunks delivered are that body.
C6_RelayInOrder ==
    \A h \in Handlers :
       LET r == req[h] IN
       r.down.origin = "upstream" =>
          /\ r.down.status = r.up.status
          /\ r.down.chunks # <<>> => r.down.headers_sent
          /\ IsPrefix(r.down.chunks, r.recv)
          /\ IsPrefix(r.recv, r.up.chunks)
          /\ r.down.state = "complete" =>
                (r.down.headers_sent /\ r.down.chunks = r.up.chunks)

C6_Witness ==
    \E h \in Handlers :
       /\ req[h].pc = "done"
       /\ req[h].down.origin = "upstream"
       /\ req[h].down.state = "complete"
       /\ req[h].down.status = 404
       /\ req[h].down.chunks = <<"c1", "c2">>

(* ---------------- the routing log line ---------------- *)

LogRequests ==
    { Request(m, p, <<>>, <<>>) : m \in RouteMethodInputs, p \in RoutePathInputs }

InitLog == \E conf \in RouteConfigs : Serving(conf)

NextLog ==
    \E h \in SysHandlers :
       \/ proxy_recv(h, LogRequests)
       \/ proxy_80(h)
       \/ proxy_86(h)
       \/ proxy_89(h, SysOutcomes)
       \/ proxy_99(h)
       \/ proxy_110(h)
       \/ stream_pull(h)
       \/ stream_write(h)
       \/ stream_end(h)
       \/ stream_fail(h)
       \/ proxy_done(h)

SpecLog == InitLog /\ [][NextLog]_vars

RouteLines(log) == { i \in DOMAIN log : log[i].kind = "route" }

====
